---- MODULE Spec2Model ----
(***************************************************************************)
(* A model of src/src/domain.rs: the DomainClient facade (six operations,  *)
(* each one HTTP request followed by one dispatch on the response status)  *)
(* and the serde encoding of Domain and DNSSECKeyInfo.                     *)
(*                                                                         *)
(* Strings that the code builds with format! are sequences of one-char     *)
(* strings, so that what a name's characters do to the text is visible.    *)
(* Option<T> is None / Some(x); Result<T, E> is Ok(v) / Err(e).            *)
(***************************************************************************)
EXTENDS Integers, Sequences, FiniteSets, TLC

VARIABLES
    client,     \* the DomainClient's only field: the handle to the transport
    task,       \* task[i]: the invocation running in slot i, if any
    calls,      \* how many invocations have been started
    value,      \* codec: the Domain value to encode
    encoded,    \* codec: Option of its JSON encoding
    decoded     \* codec: Option of the result of decoding `encoded`

vars == <<client, task, calls, value, encoded, decoded>>

(***************************************************************************)
(* Bounds of the model.                                                    *)
(***************************************************************************)
MaxCalls == 2       \* invocations started in one behaviour
MaxNameLen == 3     \* length of a domain name given to create_domain
MaxKeys == 1        \* length of Domain.keys

(***************************************************************************)
(* Option and Result.                                                      *)
(***************************************************************************)
None == [some |-> FALSE]
Some(x) == [some |-> TRUE, val |-> x]
Ok(v) == [ok |-> TRUE, val |-> v]
Err(e) == [ok |-> FALSE, err |-> e]

(***************************************************************************)
(* JSON values: what serde_json writes and reads.  An object is the        *)
(* sequence of its members in document order.                              *)
(***************************************************************************)
JNull == [t |-> "null"]
JStr(s) == [t |-> "str", s |-> s]
JNum(n) == [t |-> "num", n |-> n]
JBool(b) == [t |-> "bool", b |-> b]
JArr(a) == [t |-> "arr", a |-> a]
JObj(m) == [t |-> "obj", o |-> m]
Member(k, v) == [k |-> k, v |-> v]

(***************************************************************************)
(* Types as serde sees them.  A struct is its fields in declaration order; *)
(* a field has its Rust name, the JSON key it is written and read under,   *)
(* its type, and whether it carries skip_serializing_if.                   *)
(***************************************************************************)
U16Max == 65535

TString == [k |-> "string"]
TU16 == [k |-> "u16"]
TBool == [k |-> "bool"]
TOption(T) == [k |-> "option", of |-> T]
TVec(T) == [k |-> "vec", of |-> T]
TStruct(name, fields) == [k |-> "struct", name |-> name, fields |-> fields]
SkipField(name, key, ty) == [name |-> name, key |-> key, ty |-> ty, skip |-> TRUE]

\* pub struct DNSSECKeyInfo; keyflags has #[serde(rename = "flags")].
DNSSECKeyInfo ==
    TStruct("DNSSECKeyInfo",
            <<SkipField("dnskey", "dnskey", TOption(TString)),
              SkipField("ds", "ds", TOption(TVec(TString))),
              SkipField("keyflags", "flags", TOption(TU16)),
              SkipField("keytype", "keytype", TOption(TString)),
              SkipField("managed", "managed", TOption(TBool))>>)

\* pub struct Domain
Domain ==
    TStruct("Domain",
            <<SkipField("created", "created", TOption(TString)),
              SkipField("keys", "keys", TOption(TVec(DNSSECKeyInfo))),
              SkipField("minimum_ttl", "minimum_ttl", TOption(TU16)),
              SkipField("name", "name", TOption(TString)),
              SkipField("published", "published", TOption(TString)),
              SkipField("touched", "touched", TOption(TString)),
              SkipField("zonefile", "zonefile", TOption(TString))>>)

\* pub type DomainList = Vec<Domain>
DomainList == TVec(Domain)

FieldNames(T) == {T.fields[i].name : i \in 1..Len(T.fields)}

\* A skip rule that never skips.
Option_is_none_never(opt) == FALSE

\* skip_serializing_if = "Option::is_none"
Option_is_none(opt) == ~opt.some

(***************************************************************************)
(* derive(Serialize): a struct writes its fields in order, leaving out     *)
(* those its skip rule names; Option writes None as null and Some(x) as x. *)
(***************************************************************************)
RECURSIVE ToJson(_, _)
ToJson(T, v) ==
    CASE T.k = "string" -> JStr(v)
      [] T.k = "u16" -> JNum(v)
      [] T.k = "bool" -> JBool(v)
      [] T.k = "option" -> IF v.some THEN ToJson(T.of, v.val) ELSE JNull
      [] T.k = "vec" -> JArr([i \in 1..Len(v) |-> ToJson(T.of, v[i])])
      [] T.k = "struct" ->
            LET kept == SelectSeq(T.fields,
                                  LAMBDA fd : ~(fd.skip /\ Option_is_none(v[fd.name])))
            IN JObj([i \in 1..Len(kept) |->
                        Member(kept[i].key, ToJson(kept[i].ty, v[kept[i].name]))])

(***************************************************************************)
(* derive(Deserialize).  A failed decode gives its description.  A struct  *)
(* is read from an object (unknown keys ignored, a known key twice an      *)
(* error, a missing Option field None) or from an array, by position.      *)
(***************************************************************************)
MinOf(S) == CHOOSE x \in S : \A y \in S : x <= y

RECURSIVE FromJson(_, _)
RECURSIVE StructFromMap(_, _)
RECURSIVE StructFromSeq(_, _)

\* The derived visitor's visit_map.
StructFromMap(T, m) ==
    LET fields == {T.fields[i] : i \in 1..Len(T.fields)}
        FieldOf(key) == CHOOSE fd \in fields : fd.key = key
        known == {i \in 1..Len(m) : \E fd \in fields : fd.key = m[i].k}
        dup(i) == \E h \in 1..(i - 1) : m[h].k = m[i].k
        bad == {i \in known : dup(i) \/ ~FromJson(FieldOf(m[i].k).ty, m[i].v).ok}
        At(fd) == {i \in known : m[i].k = fd.key}
        missing == {i \in 1..Len(T.fields) :
                       At(T.fields[i]) = {} /\ T.fields[i].ty.k # "option"}
        ByName(name) == CHOOSE fd \in fields : fd.name = name
    IN IF bad # {}
       THEN LET i == MinOf(bad)
            IN IF dup(i) THEN Err("duplicate field")
               ELSE FromJson(FieldOf(m[i].k).ty, m[i].v)
       ELSE IF missing # {} THEN Err("missing field")
       ELSE Ok([name \in FieldNames(T) |->
                   IF At(ByName(name)) = {} THEN None
                   ELSE FromJson(ByName(name).ty, m[MinOf(At(ByName(name)))].v).val])

\* The derived visitor's visit_seq.
StructFromSeq(T, a) ==
    LET n == IF Len(a) < Len(T.fields) THEN Len(a) ELSE Len(T.fields)
        bad == {i \in 1..n : ~FromJson(T.fields[i].ty, a[i]).ok}
        Pos(name) == CHOOSE i \in 1..Len(T.fields) : T.fields[i].name = name
    IN IF bad # {} THEN FromJson(T.fields[MinOf(bad)].ty, a[MinOf(bad)])
       ELSE IF Len(a) < Len(T.fields) THEN Err("invalid length")
       ELSE IF Len(a) > Len(T.fields) THEN Err("trailing characters")
       ELSE Ok([name \in FieldNames(T) |->
                   FromJson(T.fields[Pos(name)].ty, a[Pos(name)]).val])

FromJson(T, j) ==
    CASE T.k = "string" ->
            IF j.t = "str" THEN Ok(j.s) ELSE Err("invalid type: expected a string")
      [] T.k = "u16" ->
            IF j.t # "num" THEN Err("invalid type: expected u16")
            ELSE IF j.n \in 0..U16Max THEN Ok(j.n)
            ELSE Err("invalid value: expected u16")
      [] T.k = "bool" ->
            IF j.t = "bool" THEN Ok(j.b) ELSE Err("invalid type: expected a boolean")
      [] T.k = "option" ->
            IF j.t = "null" THEN Ok(None)
            ELSE LET r == FromJson(T.of, j)
                 IN IF r.ok THEN Ok(Some(r.val)) ELSE r
      [] T.k = "vec" ->
            IF j.t # "arr" THEN Err("invalid type: expected a sequence")
            ELSE LET bad == {i \in 1..Len(j.a) : ~FromJson(T.of, j.a[i]).ok}
                 IN IF bad # {} THEN FromJson(T.of, j.a[MinOf(bad)])
                    ELSE Ok([i \in 1..Len(j.a) |-> FromJson(T.of, j.a[i]).val])
      [] T.k = "struct" ->
            IF j.t = "obj" THEN StructFromMap(T, j.o)
            ELSE IF j.t = "arr" THEN StructFromSeq(T, j.a)
            ELSE Err("invalid type: expected a struct")

(***************************************************************************)
(* The transport's answer to one request: Err(e) when the call itself      *)
(* failed, else Ok(response).  A response has a status, the body the       *)
(* server sent (its text, and what parsing that text as JSON gives), and   *)
(* whether the body can be read off the connection.                        *)
(***************************************************************************)
OK == 200
NO_CONTENT == 204
BAD_REQUEST == 400
NOT_FOUND == 404

Statuses == {OK, NO_CONTENT, BAD_REQUEST, 403, NOT_FOUND, 409, 500}

EmptyBody == [text |-> "", json |-> Err("EOF while parsing a value")]
ZoneBody == [text |-> "$ORIGIN example.com.\n...", json |-> Err("expected value")]
NameBody ==
    [text |-> "{\"name\":\"example.com\"}",
     json |-> Ok(JObj(<<Member("name", JStr("example.com"))>>))]
ListBody ==
    [text |-> "[{\"name\":\"b.example\",\"touched\":null,\"owner\":\"x\"},{\"name\":\"a.example\",\"minimum_ttl\":3600}]",
     json |-> Ok(JArr(<<JObj(<<Member("name", JStr("b.example")),
                               Member("touched", JNull),
                               Member("owner", JStr("x"))>>),
                        JObj(<<Member("name", JStr("a.example")),
                               Member("minimum_ttl", JNum(3600))>>)>>))]
EmptyListBody == [text |-> "[]", json |-> Ok(JArr(<<>>))]

Bodies == {EmptyBody, ZoneBody, NameBody, ListBody, EmptyListBody}

\* Every status with every body, readable; and every status with a body
\* (the zonefile text) that the connection fails to deliver.
Responses ==
    [status : Statuses, body : Bodies, readable : {TRUE}]
        \cup [status : Statuses, body : {ZoneBody}, readable : {FALSE}]

TransportFailures == {[kind |-> "Request", source |-> "connection refused"]}

Outcomes == {Err(e) : e \in TransportFailures} \cup {Ok(r) : r \in Responses}

BodyFailure == [kind |-> "Body", source |-> "connection reset"]

\* Response::status()
StatusOf(response) == response.status

\* Response::text(): the body's text, or the failure to read it.
TextOf(response) ==
    IF response.readable THEN Ok(response.body.text) ELSE Err(BodyFailure)

\* Response::json::<T>(): read the body, parse it, decode it as T.
JsonOf(response, T) ==
    IF ~response.readable THEN Err(BodyFailure)
    ELSE IF ~response.body.json.ok
    THEN Err([kind |-> "Decode", source |-> response.body.json.err])
    ELSE LET r == FromJson(T, response.body.json.val)
         IN IF r.ok THEN r ELSE Err([kind |-> "Decode", source |-> r.err])

\* error.to_string(): the description of a failure.
ErrorToString(e) ==
    <<CASE e.kind = "Decode" -> "error decoding response body"
        [] e.kind = "Body" -> "request or response body error"
        [] OTHER -> "error sending request",
      e.source>>

\* Result<String, _>::unwrap_or_default()
unwrap_or_default(r) == IF r.ok THEN r.val ELSE ""

\* .map_err(|error| Error::InvalidAPIResponse(error.to_string()))
InvalidAPIResponse(msg) == [kind |-> "InvalidAPIResponse", msg |-> msg]
\* A failed read or decode turned into the type's default value.
map_err_defaulted(r) == IF r.ok THEN r ELSE Ok("")

map_err_invalid(r) == IF r.ok THEN r ELSE Err(InvalidAPIResponse(ErrorToString(r.err)))

ApiError(status, text) == [kind |-> "ApiError", status |-> status, text |-> text]
UnexpectedStatusCode(status, text) ==
    [kind |-> "UnexpectedStatusCode", status |-> status, text |-> text]
NotFound == [kind |-> "NotFound"]
Reqwest(error) == [kind |-> "Reqwest", error |-> error]

\* What a match arm leaves behind: the operation's result and the body
\* accesses (json / text) it made on the response, in order.
Arm(result, reads) == [result |-> result, reads |-> reads]

(***************************************************************************)
(* The six matches on the transport's answer.                              *)
(***************************************************************************)
\* create_domain with the transport failure sent through the catch-all arm.
create_domain_match_failure_read(t) ==
    IF t.ok /\ StatusOf(t.val) = OK
    THEN Arm(map_err_invalid(JsonOf(t.val, Domain)), <<"json">>)
    ELSE IF t.ok /\ StatusOf(t.val) = BAD_REQUEST
    THEN Arm(Err(ApiError(StatusOf(t.val), unwrap_or_default(TextOf(t.val)))),
             <<"text">>)
    ELSE Arm(Err(UnexpectedStatusCode(0, "")), <<"text">>)

\* create_domain taking every client-error status for the ApiError arm.
create_domain_match_any_4xx(t) ==
    IF t.ok /\ StatusOf(t.val) = OK
    THEN Arm(map_err_invalid(JsonOf(t.val, Domain)), <<"json">>)
    ELSE IF t.ok /\ StatusOf(t.val) >= BAD_REQUEST /\ StatusOf(t.val) < 500
    THEN Arm(Err(ApiError(StatusOf(t.val), unwrap_or_default(TextOf(t.val)))),
             <<"text">>)
    ELSE IF t.ok
    THEN Arm(Err(UnexpectedStatusCode(StatusOf(t.val),
                                      unwrap_or_default(TextOf(t.val)))),
             <<"text">>)
    ELSE Arm(Err(Reqwest(t.err)), <<>>)

create_domain_match(t) ==
    IF t.ok /\ StatusOf(t.val) = OK
    THEN Arm(map_err_invalid(JsonOf(t.val, Domain)), <<"json">>)
    ELSE IF t.ok /\ StatusOf(t.val) = BAD_REQUEST
    THEN Arm(Err(ApiError(StatusOf(t.val), unwrap_or_default(TextOf(t.val)))),
             <<"text">>)
    ELSE IF t.ok
    THEN Arm(Err(UnexpectedStatusCode(StatusOf(t.val),
                                      unwrap_or_default(TextOf(t.val)))),
             <<"text">>)
    ELSE Arm(Err(Reqwest(t.err)), <<>>)

\* get_domains handing the list back last to first.
get_domains_match_reversed(t) ==
    IF t.ok /\ StatusOf(t.val) = OK
    THEN LET r == map_err_invalid(JsonOf(t.val, DomainList))
         IN Arm(IF r.ok THEN Ok([i \in 1..Len(r.val) |-> r.val[Len(r.val) + 1 - i]])
                ELSE r,
                <<"json">>)
    ELSE IF t.ok
    THEN Arm(Err(UnexpectedStatusCode(StatusOf(t.val),
                                      unwrap_or_default(TextOf(t.val)))),
             <<"text">>)
    ELSE Arm(Err(Reqwest(t.err)), <<>>)

get_domains_match(t) ==
    IF t.ok /\ StatusOf(t.val) = OK
    THEN Arm(map_err_invalid(JsonOf(t.val, DomainList)), <<"json">>)
    ELSE IF t.ok
    THEN Arm(Err(UnexpectedStatusCode(StatusOf(t.val),
                                      unwrap_or_default(TextOf(t.val)))),
             <<"text">>)
    ELSE Arm(Err(Reqwest(t.err)), <<>>)

\* get_domain without its NOT_FOUND arm.
get_domain_match_no_not_found(t) ==
    IF t.ok /\ StatusOf(t.val) = OK
    THEN Arm(map_err_invalid(JsonOf(t.val, Domain)), <<"json">>)
    ELSE IF t.ok
    THEN Arm(Err(UnexpectedStatusCode(StatusOf(t.val),
                                      unwrap_or_default(TextOf(t.val)))),
             <<"text">>)
    ELSE Arm(Err(Reqwest(t.err)), <<>>)

get_domain_match(t) ==
    IF t.ok /\ StatusOf(t.val) = OK
    THEN Arm(map_err_invalid(JsonOf(t.val, Domain)), <<"json">>)
    ELSE IF t.ok /\ StatusOf(t.val) = NOT_FOUND
    THEN Arm(Err(NotFound), <<>>)
    ELSE IF t.ok
    THEN Arm(Err(UnexpectedStatusCode(StatusOf(t.val),
                                      unwrap_or_default(TextOf(t.val)))),
             <<"text">>)
    ELSE Arm(Err(Reqwest(t.err)), <<>>)

\* delete_domain taking OK for a success as well.
delete_domain_match_ok_too(t) ==
    IF t.ok /\ StatusOf(t.val) \in {NO_CONTENT, OK}
    THEN Arm(map_err_invalid(TextOf(t.val)), <<"text">>)
    ELSE IF t.ok
    THEN Arm(Err(UnexpectedStatusCode(StatusOf(t.val),
                                      unwrap_or_default(TextOf(t.val)))),
             <<"text">>)
    ELSE Arm(Err(Reqwest(t.err)), <<>>)

delete_domain_match(t) ==
    IF t.ok /\ StatusOf(t.val) = NO_CONTENT
    THEN Arm(map_err_invalid(TextOf(t.val)), <<"text">>)
    ELSE IF t.ok
    THEN Arm(Err(UnexpectedStatusCode(StatusOf(t.val),
                                      unwrap_or_default(TextOf(t.val)))),
             <<"text">>)
    ELSE Arm(Err(Reqwest(t.err)), <<>>)

get_owning_domain_match(t) ==
    IF t.ok /\ StatusOf(t.val) = OK
    THEN Arm(map_err_invalid(JsonOf(t.val, Domain)), <<"json">>)
    ELSE IF t.ok /\ StatusOf(t.val) = NOT_FOUND
    THEN Arm(Err(NotFound), <<>>)
    ELSE IF t.ok
    THEN Arm(Err(UnexpectedStatusCode(StatusOf(t.val),
                                      unwrap_or_default(TextOf(t.val)))),
             <<"text">>)
    ELSE Arm(Err(Reqwest(t.err)), <<>>)

\* get_zonefile with the success arm's text read through unwrap_or_default.
get_zonefile_match_swallowing(t) ==
    IF t.ok /\ StatusOf(t.val) = OK
    THEN Arm(Ok(unwrap_or_default(TextOf(t.val))), <<"text">>)
    ELSE IF t.ok
    THEN Arm(Err(UnexpectedStatusCode(StatusOf(t.val),
                                      unwrap_or_default(TextOf(t.val)))),
             <<"text">>)
    ELSE Arm(Err(Reqwest(t.err)), <<>>)

get_zonefile_match(t) ==
    IF t.ok /\ StatusOf(t.val) = OK
    THEN Arm(map_err_invalid(TextOf(t.val)), <<"text">>)
    ELSE IF t.ok
    THEN Arm(Err(UnexpectedStatusCode(StatusOf(t.val),
                                      unwrap_or_default(TextOf(t.val)))),
             <<"text">>)
    ELSE Arm(Err(Reqwest(t.err)), <<>>)

(***************************************************************************)
(* The requests.  format! copies the argument's characters as they are.    *)
(***************************************************************************)
DomainsPath == <<"/", "d", "o", "m", "a", "i", "n", "s", "/">>

\* format!("{{\"name\": \"{domain}\"}}")
create_domain_body(domain) ==
    <<"{", "\"", "n", "a", "m", "e", "\"", ":", " ", "\"">> \o domain \o <<"\"", "}">>

\* format!("/domains/{domain}/")
domain_path(domain) == DomainsPath \o domain \o <<"/">>

\* format!("/domains/?owns_qname={qname}")
owning_domain_path(qname) ==
    DomainsPath \o <<"?", "o", "w", "n", "s", "_", "q", "n", "a", "m", "e", "=">>
        \o qname

\* format!("/domains/{domain}/zonefile/")
zonefile_path(domain) ==
    DomainsPath \o domain \o <<"/", "z", "o", "n", "e", "f", "i", "l", "e", "/">>

\* Client::post / Client::get / Client::delete as called by the operations.
Post(path, body) == [method |-> "POST", path |-> path, body |-> Some(body)]
Get(path) == [method |-> "GET", path |-> path, body |-> None]
Delete(path) == [method |-> "DELETE", path |-> path, body |-> None]


(***************************************************************************)
(* State.  The client is built once by Client::domain() and holds the      *)
(* reference to the transport.  An invocation is idle, awaiting the        *)
(* transport's answer, or done with a result.                              *)
(***************************************************************************)
Tasks == {1, 2}

NameChars == {"a", "n", "\"", "\\"}

\* The name the operations are called with in Spec.
Names == {<<"n", "a">>}

RECURSIVE StringsUpTo(_)
StringsUpTo(n) ==
    IF n = 0 THEN {<<>>}
    ELSE LET shorter == StringsUpTo(n - 1)
         IN shorter \cup {Append(s, c) : s \in shorter, c \in NameChars}

\* The names create_domain is called with in SpecBody.
AnyNames == StringsUpTo(MaxNameLen)

\* Client::domain()
domain_client == [client |-> "transport"]

Idle ==
    [pc |-> "idle", op |-> "none", arg |-> <<>>, reqs |-> <<>>,
     answer |-> None, result |-> None, reads |-> <<>>]

\* Domain::default()
DefaultDomain == [f \in FieldNames(Domain) |-> None]

Opt(S) == {None} \cup {Some(x) : x \in S}

NoKeyInfo == [f \in FieldNames(DNSSECKeyInfo) |-> None]

FullKeyInfo ==
    [dnskey |-> Some("257 3 13 abc"), ds |-> Some(<<"d1">>), keyflags |-> Some(257),
     keytype |-> Some("csk"), managed |-> Some(TRUE)]

\* DNSSECKeyInfo values: nothing set, everything set, and each field alone
\* set to its type's default value.
KeyInfos ==
    {NoKeyInfo, FullKeyInfo,
     [NoKeyInfo EXCEPT !.dnskey = Some("")],
     [NoKeyInfo EXCEPT !.ds = Some(<<>>)],
     [NoKeyInfo EXCEPT !.keyflags = Some(0)],
     [NoKeyInfo EXCEPT !.keytype = Some("")],
     [NoKeyInfo EXCEPT !.managed = Some(FALSE)]}

RECURSIVE KeyLists(_)
KeyLists(n) ==
    IF n = 0 THEN {<<>>}
    ELSE LET shorter == KeyLists(n - 1)
         IN shorter \cup {Append(s, k) : s \in shorter, k \in KeyInfos}

\* The Domain values SpecCodec encodes.
Domains ==
    [created : Opt({"2024-01-01T00:00:00Z"}),
     keys : Opt(KeyLists(MaxKeys)),
     minimum_ttl : Opt({0, U16Max}),
     name : Opt({"", "example.com"}),
     published : Opt({"2024-01-02T00:00:00Z"}),
     touched : Opt({""}),
     zonefile : Opt({""})]

(***************************************************************************)
(* The operations: the call up to its await, which hands one request to    *)
(* the transport, and the resumption with the transport's answer t.        *)
(***************************************************************************)
create_domain(i, domain) ==
    /\ task[i].pc = "idle"
    /\ calls < MaxCalls
    /\ calls' = calls + 1
    /\ task' = [task EXCEPT ![i] =
                   [Idle EXCEPT !.pc = "awaiting", !.op = "create_domain", !.arg = domain,
                                !.reqs = Append(task[i].reqs, Post(DomainsPath, create_domain_body(domain)))]]
    /\ UNCHANGED <<client, value, encoded, decoded>>

create_domain_resume(i, t) ==
    /\ task[i].pc = "awaiting"
    /\ task[i].op = "create_domain"
    /\ LET arm == create_domain_match(t)
       IN task' = [task EXCEPT ![i].pc = "done", ![i].answer = Some(t),
                               ![i].result = Some(arm.result),
                               ![i].reads = arm.reads]
    /\ UNCHANGED <<client, calls, value, encoded, decoded>>

get_domains(i) ==
    /\ task[i].pc = "idle"
    /\ calls < MaxCalls
    /\ calls' = calls + 1
    /\ task' = [task EXCEPT ![i] =
                   [Idle EXCEPT !.pc = "awaiting", !.op = "get_domains", !.arg = <<>>,
                                !.reqs = Append(task[i].reqs, Get(DomainsPath))]]
    /\ UNCHANGED <<client, value, encoded, decoded>>

\* get_domains sending its request again after a transport failure.
get_domains_resume_retrying(i, t) ==
    /\ task[i].pc = "awaiting"
    /\ task[i].op = "get_domains"
    /\ IF ~t.ok /\ Len(task[i].reqs) < 2
       THEN task' = [task EXCEPT ![i].reqs = Append(@, Get(DomainsPath))]
       ELSE LET arm == get_domains_match(t)
            IN task' = [task EXCEPT ![i].pc = "done", ![i].answer = Some(t),
                                    ![i].result = Some(arm.result),
                                    ![i].reads = arm.reads]
    /\ UNCHANGED <<client, calls, value, encoded, decoded>>

get_domains_resume(i, t) ==
    /\ task[i].pc = "awaiting"
    /\ task[i].op = "get_domains"
    /\ LET arm == get_domains_match(t)
       IN task' = [task EXCEPT ![i].pc = "done", ![i].answer = Some(t),
                               ![i].result = Some(arm.result),
                               ![i].reads = arm.reads]
    /\ UNCHANGED <<client, calls, value, encoded, decoded>>

get_domain(i, domain) ==
    /\ task[i].pc = "idle"
    /\ calls < MaxCalls
    /\ calls' = calls + 1
    /\ task' = [task EXCEPT ![i] =
                   [Idle EXCEPT !.pc = "awaiting", !.op = "get_domain", !.arg = domain,
                                !.reqs = Append(task[i].reqs, Get(domain_path(domain)))]]
    /\ UNCHANGED <<client, value, encoded, decoded>>

get_domain_resume(i, t) ==
    /\ task[i].pc = "awaiting"
    /\ task[i].op = "get_domain"
    /\ LET arm == get_domain_match(t)
       IN task' = [task EXCEPT ![i].pc = "done", ![i].answer = Some(t),
                               ![i].result = Some(arm.result),
                               ![i].reads = arm.reads]
    /\ UNCHANGED <<client, calls, value, encoded, decoded>>

delete_domain(i, domain) ==
    /\ task[i].pc = "idle"
    /\ calls < MaxCalls
    /\ calls' = calls + 1
    /\ task' = [task EXCEPT ![i] =
                   [Idle EXCEPT !.pc = "awaiting", !.op = "delete_domain", !.arg = domain,
                                !.reqs = Append(task[i].reqs, Delete(domain_path(domain)))]]
    /\ UNCHANGED <<client, value, encoded, decoded>>

delete_domain_resume(i, t) ==
    /\ task[i].pc = "awaiting"
    /\ task[i].op = "delete_domain"
    /\ LET arm == delete_domain_match(t)
       IN task' = [task EXCEPT ![i].pc = "done", ![i].answer = Some(t),
                               ![i].result = Some(arm.result),
                               ![i].reads = arm.reads]
    /\ UNCHANGED <<client, calls, value, encoded, decoded>>

get_owning_domain(i, qname) ==
    /\ task[i].pc = "idle"
    /\ calls < MaxCalls
    /\ calls' = calls + 1
    /\ task' = [task EXCEPT ![i] =
                   [Idle EXCEPT !.pc = "awaiting", !.op = "get_owning_domain", !.arg = qname,
                                !.reqs = Append(task[i].reqs, Get(owning_domain_path(qname)))]]
    /\ UNCHANGED <<client, value, encoded, decoded>>

get_owning_domain_resume(i, t) ==
    /\ task[i].pc = "awaiting"
    /\ task[i].op = "get_owning_domain"
    /\ LET arm == get_owning_domain_match(t)
       IN task' = [task EXCEPT ![i].pc = "done", ![i].answer = Some(t),
                               ![i].result = Some(arm.result),
                               ![i].reads = arm.reads]
    /\ UNCHANGED <<client, calls, value, encoded, decoded>>

get_zonefile(i, domain) ==
    /\ task[i].pc = "idle"
    /\ calls < MaxCalls
    /\ calls' = calls + 1
    /\ task' = [task EXCEPT ![i] =
                   [Idle EXCEPT !.pc = "awaiting", !.op = "get_zonefile", !.arg = domain,
                                !.reqs = Append(task[i].reqs, Get(zonefile_path(domain)))]]
    /\ UNCHANGED <<client, value, encoded, decoded>>

get_zonefile_resume(i, t) ==
    /\ task[i].pc = "awaiting"
    /\ task[i].op = "get_zonefile"
    /\ LET arm == get_zonefile_match(t)
       IN task' = [task EXCEPT ![i].pc = "done", ![i].answer = Some(t),
                               ![i].result = Some(arm.result),
                               ![i].reads = arm.reads]
    /\ UNCHANGED <<client, calls, value, encoded, decoded>>

\* The caller takes the result; the future is gone and the slot is free.
complete(i) ==
    /\ task[i].pc = "done"
    /\ task' = [task EXCEPT ![i] = Idle]
    /\ UNCHANGED <<client, calls, value, encoded, decoded>>

\* serde_json::to_value(&domain)
serialize_domain ==
    /\ ~encoded.some
    /\ encoded' = Some(ToJson(Domain, value))
    /\ UNCHANGED <<client, task, calls, value, decoded>>

\* serde_json::from_value::<Domain>(encoded)
deserialize_domain ==
    /\ encoded.some
    /\ ~decoded.some
    /\ decoded' = Some(FromJson(Domain, encoded.val))
    /\ UNCHANGED <<client, task, calls, value, encoded>>

(***************************************************************************)
(* Specifications.                                                         *)
(***************************************************************************)
Init ==
    /\ client = domain_client
    /\ task = [i \in Tasks |-> Idle]
    /\ calls = 0
    /\ value = DefaultDomain
    /\ encoded = None
    /\ decoded = None

Next ==
    \/ \E i \in Tasks, d \in Names : create_domain(i, d)
    \/ \E i \in Tasks, t \in Outcomes : create_domain_resume(i, t)
    \/ \E i \in Tasks : get_domains(i)
    \/ \E i \in Tasks, t \in Outcomes : get_domains_resume(i, t)
    \/ \E i \in Tasks, d \in Names : get_domain(i, d)
    \/ \E i \in Tasks, t \in Outcomes : get_domain_resume(i, t)
    \/ \E i \in Tasks, d \in Names : delete_domain(i, d)
    \/ \E i \in Tasks, t \in Outcomes : delete_domain_resume(i, t)
    \/ \E i \in Tasks, q \in Names : get_owning_domain(i, q)
    \/ \E i \in Tasks, t \in Outcomes : get_owning_domain_resume(i, t)
    \/ \E i \in Tasks, d \in Names : get_zonefile(i, d)
    \/ \E i \in Tasks, t \in Outcomes : get_zonefile_resume(i, t)
    \/ \E i \in Tasks : complete(i)

Spec == Init /\ [][Next]_vars

\* create_domain alone, over every name up to MaxNameLen.
NextBody ==
    \/ \E d \in AnyNames : create_domain(1, d)
    \/ \E t \in Outcomes : create_domain_resume(1, t)
    \/ complete(1)

SpecBody == Init /\ [][NextBody]_vars

\* The encoding of Domain, over every value of Domains.
InitCodec ==
    /\ client = domain_client
    /\ task = [i \in Tasks |-> Idle]
    /\ calls = 0
    /\ value \in Domains
    /\ encoded = None
    /\ decoded = None

NextCodec == serialize_domain \/ deserialize_domain

SpecCodec == InitCodec /\ [][NextCodec]_vars


(***************************************************************************)
(* What a JSON reader makes of the text create_domain sends: an object     *)
(* with the one member "name", a string.  Inside the string a backslash    *)
(* starts an escape and an unescaped quote ends it; after the string only  *)
(* the closing brace may follow.                                           *)
(***************************************************************************)
NameObjectOpening == <<"{", "\"", "n", "a", "m", "e", "\"", ":", " ", "\"">>

Unescaped(c) ==
    CASE c = "n" -> "\n"
      [] c = "t" -> "\t"
      [] c = "r" -> "\r"
      [] OTHER -> c

RECURSIVE ReadJsonString(_, _, _)
ReadJsonString(s, i, acc) ==
    IF i > Len(s) THEN Err("EOF while parsing a string")
    ELSE IF s[i] = "\"" THEN Ok([str |-> acc, next |-> i + 1])
    ELSE IF s[i] = "\\"
    THEN IF i + 1 > Len(s) THEN Err("EOF while parsing a string")
         ELSE IF s[i + 1] \in {"\"", "\\", "/", "n", "t", "r"}
         THEN ReadJsonString(s, i + 2, Append(acc, Unescaped(s[i + 1])))
         ELSE Err("invalid escape")
    ELSE ReadJsonString(s, i + 1, Append(acc, s[i]))

ReadNameObject(s) ==
    LET n == Len(NameObjectOpening)
    IN IF Len(s) < n \/ SubSeq(s, 1, n) # NameObjectOpening
       THEN Err("expected the name member")
       ELSE LET r == ReadJsonString(s, n + 1, <<>>)
            IN IF ~r.ok THEN r
               ELSE IF SubSeq(s, r.val.next, Len(s)) # <<"}">>
               THEN Err("expected a comma or the closing brace")
               ELSE Ok(JObj(<<Member("name", JStr(r.val.str))>>))

(***************************************************************************)
(* Vocabulary of the properties.                                           *)
(***************************************************************************)
Finished == {i \in Tasks : task[i].pc = "done"}
AnswerOf(i) == task[i].answer.val
ResultOf(i) == task[i].result.val
ErrKind(i) == IF ResultOf(i).ok THEN "none" ELSE ResultOf(i).err.kind
Answered == {i \in Finished : AnswerOf(i).ok}
ResponseOf(i) == AnswerOf(i).val
StatusIs(i, s) == i \in Answered /\ ResponseOf(i).status = s
\* The text an error carries when the body's text is what the server sent.
SentText(i) == ResponseOf(i).body.text
\* The text an error carries under the amended claims.
ReadTextOrEmpty(i) == IF ResponseOf(i).readable THEN ResponseOf(i).body.text ELSE ""

SuccessStatus(op) == IF op = "delete_domain" THEN NO_CONTENT ELSE OK

Recognized(op) ==
    CASE op = "create_domain" -> {OK, BAD_REQUEST}
      [] op = "get_domains" -> {OK}
      [] op = "get_domain" -> {OK, NOT_FOUND}
      [] op = "delete_domain" -> {NO_CONTENT}
      [] op = "get_owning_domain" -> {OK, NOT_FOUND}
      [] op = "get_zonefile" -> {OK}

(***************************************************************************)
(* C1: when the transport call itself fails, the operation returns         *)
(* Error::Reqwest carrying that failure, and it makes neither a JSON       *)
(* decode nor a body-text read.                                            *)
(***************************************************************************)
C1_TransportFailure ==
    \A i \in Finished :
        ~AnswerOf(i).ok =>
            /\ ErrKind(i) = "Reqwest"
            /\ ResultOf(i).err.error = AnswerOf(i).err
            /\ task[i].reads = <<>>

C1_Witness ==
    /\ Finished = Tasks
    /\ \A i \in Tasks : ~AnswerOf(i).ok /\ ErrKind(i) = "Reqwest"
    /\ task[1].op = "create_domain"
    /\ task[2].op = "get_zonefile"


(***************************************************************************)
(* C2 as stated: an operation returns ApiError if and only if it is        *)
(* create_domain and the status is BAD_REQUEST, and the error then carries *)
(* BAD_REQUEST and exactly the text of the response body.                  *)
(***************************************************************************)
C2_Original ==
    \A i \in Finished :
        /\ ErrKind(i) = "ApiError"
              <=> (task[i].op = "create_domain" /\ StatusIs(i, BAD_REQUEST))
        /\ ErrKind(i) = "ApiError" =>
              /\ ResultOf(i).err.status = BAD_REQUEST
              /\ ResultOf(i).err.text = SentText(i)

(***************************************************************************)
(* C2 amended: an operation returns ApiError if and only if it is          *)
(* create_domain and the status is BAD_REQUEST, and the error then carries *)
(* BAD_REQUEST and the text of the response body, or the empty string      *)
(* when the body's text cannot be read.                                    *)
(***************************************************************************)
C2_ApiError ==
    \A i \in Finished :
        /\ ErrKind(i) = "ApiError"
              <=> (task[i].op = "create_domain" /\ StatusIs(i, BAD_REQUEST))
        /\ ErrKind(i) = "ApiError" =>
              /\ ResultOf(i).err.status = BAD_REQUEST
              /\ ResultOf(i).err.text = ReadTextOrEmpty(i)

C2_Witness ==
    /\ Finished = Tasks
    /\ \A i \in Tasks :
          /\ task[i].op = "create_domain"
          /\ StatusIs(i, BAD_REQUEST)
          /\ ErrKind(i) = "ApiError"
          /\ ResponseOf(i).body = ZoneBody
    /\ ResponseOf(1).readable
    /\ ~ResponseOf(2).readable

(***************************************************************************)
(* C3 as stated: an operation returns NotFound, with no payload and        *)
(* without reading the body, if and only if it is get_domain or            *)
(* get_owning_domain and the status is NOT_FOUND; NOT_FOUND on the other   *)
(* four operations gives UnexpectedStatusCode carrying 404 and the text of *)
(* the response body.                                                      *)
(***************************************************************************)
NotFoundOps == {"get_domain", "get_owning_domain"}

C3_Original ==
    \A i \in Finished :
        /\ ErrKind(i) = "NotFound"
              <=> (task[i].op \in NotFoundOps /\ StatusIs(i, NOT_FOUND))
        /\ ErrKind(i) = "NotFound" =>
              /\ DOMAIN ResultOf(i).err = {"kind"}
              /\ task[i].reads = <<>>
        /\ (task[i].op \notin NotFoundOps /\ StatusIs(i, NOT_FOUND)) =>
              /\ ErrKind(i) = "UnexpectedStatusCode"
              /\ ResultOf(i).err.status = NOT_FOUND
              /\ ResultOf(i).err.text = SentText(i)

(***************************************************************************)
(* C3 amended: as stated, except that the UnexpectedStatusCode of the      *)
(* other four operations carries 404 and the text of the response body,    *)
(* or the empty string when the body's text cannot be read.                *)
(***************************************************************************)
C3_NotFound ==
    \A i \in Finished :
        /\ ErrKind(i) = "NotFound"
              <=> (task[i].op \in NotFoundOps /\ StatusIs(i, NOT_FOUND))
        /\ ErrKind(i) = "NotFound" =>
              /\ DOMAIN ResultOf(i).err = {"kind"}
              /\ task[i].reads = <<>>
        /\ (task[i].op \notin NotFoundOps /\ StatusIs(i, NOT_FOUND)) =>
              /\ ErrKind(i) = "UnexpectedStatusCode"
              /\ ResultOf(i).err.status = NOT_FOUND
              /\ ResultOf(i).err.text = ReadTextOrEmpty(i)

C3_Witness ==
    /\ Finished = Tasks
    /\ \A i \in Tasks : StatusIs(i, NOT_FOUND) /\ ResponseOf(i).body = ZoneBody
    /\ task[1].op = "get_owning_domain"
    /\ ErrKind(1) = "NotFound"
    /\ task[2].op = "delete_domain"
    /\ ErrKind(2) = "UnexpectedStatusCode"
    /\ ~ResponseOf(2).readable

(***************************************************************************)
(* C4 as stated: for a status the operation does not recognize, the        *)
(* operation returns UnexpectedStatusCode carrying that status and the     *)
(* text of the response body; for a status it recognizes it never returns  *)
(* UnexpectedStatusCode.                                                   *)
(***************************************************************************)
C4_Original ==
    \A i \in Answered :
        IF ResponseOf(i).status \in Recognized(task[i].op)
        THEN ErrKind(i) # "UnexpectedStatusCode"
        ELSE /\ ErrKind(i) = "UnexpectedStatusCode"
             /\ ResultOf(i).err.status = ResponseOf(i).status
             /\ ResultOf(i).err.text = SentText(i)

(***************************************************************************)
(* C4 amended: as stated, except that the error carries the text of the    *)
(* response body, or the empty string when the body's text cannot be read. *)
(***************************************************************************)
C4_UnexpectedStatus ==
    \A i \in Answered :
        IF ResponseOf(i).status \in Recognized(task[i].op)
        THEN ErrKind(i) # "UnexpectedStatusCode"
        ELSE /\ ErrKind(i) = "UnexpectedStatusCode"
             /\ ResultOf(i).err.status = ResponseOf(i).status
             /\ ResultOf(i).err.text = ReadTextOrEmpty(i)

C4_Witness ==
    /\ Finished = Tasks
    /\ task[1].op = "delete_domain"
    /\ StatusIs(1, OK)
    /\ ErrKind(1) = "UnexpectedStatusCode"
    /\ ResultOf(1).err.text = ZoneBody.text
    /\ task[2].op = "create_domain"
    /\ StatusIs(2, 409)
    /\ ErrKind(2) = "UnexpectedStatusCode"
    /\ ~ResponseOf(2).readable


(***************************************************************************)
(* What the server put in a JSON body, read off the document itself.       *)
(* PlainDomain(j): j is an object of scalar Domain members, each of its    *)
(* type, no key twice: a document that is a Domain.  NotDomain(j): j is    *)
(* a document that is no Domain.  PlainOf is a member's own value.         *)
(***************************************************************************)
DomainFields ==
    {"created", "keys", "minimum_ttl", "name", "published", "touched", "zonefile"}
TextOps == {"delete_domain", "get_zonefile"}
DomainOps == {"create_domain", "get_domain", "get_owning_domain"}
ScalarFields == DomainFields \ {"keys"}

MemberTyped(m) ==
    \/ m.k \notin DomainFields
    \/ m.v.t = "null"
    \/ m.k = "minimum_ttl" /\ m.v.t = "num" /\ m.v.n \in 0..U16Max
    \/ m.k \in ScalarFields \ {"minimum_ttl"} /\ m.v.t = "str"

MemberIllTyped(m) ==
    /\ m.k \in ScalarFields
    /\ m.v.t # "null"
    /\ IF m.k = "minimum_ttl" THEN m.v.t # "num" \/ m.v.n \notin 0..U16Max
       ELSE m.v.t # "str"

PlainDomain(j) ==
    /\ j.t = "obj"
    /\ \A h \in 1..Len(j.o) : MemberTyped(j.o[h])
    /\ \A h, k \in 1..Len(j.o) : h # k => j.o[h].k # j.o[k].k

NotDomain(j) ==
    \/ j.t \notin {"obj", "arr"}
    \/ j.t = "arr" /\ Len(j.a) # Cardinality(DomainFields)
    \/ j.t = "obj" /\ \E h \in 1..Len(j.o) : MemberIllTyped(j.o[h])

PlainOf(v) == IF v.t = "str" THEN v.s ELSE v.n

Given(j, f) == {h \in 1..Len(j.o) : j.o[h].k = f /\ j.o[h].v.t # "null"}

\* Domain d has exactly what object j gives: field for field, absent
\* where j has no such member (or null).
SameAsObject(d, j) ==
    \A f \in DomainFields :
        IF Given(j, f) = {} THEN ~d[f].some
        ELSE d[f].some /\ d[f].val = PlainOf(j.o[CHOOSE h \in Given(j, f) : TRUE].v)

Succeeded == {i \in Answered : ResponseOf(i).status = SuccessStatus(task[i].op)}

(***************************************************************************)
(* C5: on the success status with a readable, decodable body the result    *)
(* is the body's content: delete_domain and get_zonefile return the text   *)
(* as it is (the empty string too); create_domain, get_domain and          *)
(* get_owning_domain return the Domain field for field, absent fields      *)
(* absent; get_domains returns the Domains in the server's order, as many  *)
(* as the array has, and the empty array gives the empty list.             *)
(***************************************************************************)
C5_SuccessValue ==
    \A i \in Succeeded :
        LET op == task[i].op
            body == ResponseOf(i).body
            res == ResultOf(i)
        IN ResponseOf(i).readable =>
            /\ op \in TextOps => res.ok /\ res.val = body.text
            /\ (op \in DomainOps /\ body.json.ok /\ PlainDomain(body.json.val)) =>
                  res.ok /\ SameAsObject(res.val, body.json.val)
            /\ (/\ op = "get_domains"
                /\ body.json.ok
                /\ body.json.val.t = "arr"
                /\ \A k \in 1..Len(body.json.val.a) : PlainDomain(body.json.val.a[k])) =>
                  /\ res.ok
                  /\ Len(res.val) = Len(body.json.val.a)
                  /\ \A k \in 1..Len(res.val) :
                        SameAsObject(res.val[k], body.json.val.a[k])

C5_Witness ==
    /\ Finished = Tasks
    /\ task[1].op = "get_domains"
    /\ StatusIs(1, OK)
    /\ ResponseOf(1).body = ListBody
    /\ ResultOf(1).ok
    /\ Len(ResultOf(1).val) = 2
    /\ ResultOf(1).val[1].name = Some("b.example")
    /\ ResultOf(1).val[1].touched = None
    /\ ResultOf(1).val[2].minimum_ttl = Some(3600)
    /\ task[2].op = "delete_domain"
    /\ StatusIs(2, NO_CONTENT)
    /\ ResponseOf(2).body = EmptyBody
    /\ ResultOf(2).ok
    /\ ResultOf(2).val = ""

(***************************************************************************)
(* C6: InvalidAPIResponse is returned only for a response with the         *)
(* operation's success status whose body could not be read or decoded;     *)
(* on the success status the result is a value or InvalidAPIResponse,      *)
(* never another error; and when the body cannot be read or decoded the    *)
(* result is InvalidAPIResponse carrying the failure's description.        *)
(***************************************************************************)
Undecodable(i) ==
    LET op == task[i].op
        body == ResponseOf(i).body
    IN \/ ~ResponseOf(i).readable
       \/ op \notin TextOps /\ ~body.json.ok
       \/ op \in DomainOps /\ body.json.ok /\ NotDomain(body.json.val)
       \/ op = "get_domains" /\ body.json.ok /\ body.json.val.t # "arr"

Decodable(i) ==
    LET op == task[i].op
        body == ResponseOf(i).body
    IN /\ ResponseOf(i).readable
       /\ op \in DomainOps => body.json.ok /\ PlainDomain(body.json.val)
       /\ op = "get_domains" =>
             /\ body.json.ok
             /\ body.json.val.t = "arr"
             /\ \A k \in 1..Len(body.json.val.a) : PlainDomain(body.json.val.a[k])

C6_InvalidResponse ==
    \A i \in Finished :
        /\ ErrKind(i) = "InvalidAPIResponse" => i \in Succeeded /\ ~Decodable(i)
        /\ i \in Succeeded => ErrKind(i) \in {"none", "InvalidAPIResponse"}
        /\ (i \in Succeeded /\ Undecodable(i)) =>
              /\ ErrKind(i) = "InvalidAPIResponse"
              /\ ~ResponseOf(i).readable =>
                    ResultOf(i).err.msg
                        = <<"request or response body error", BodyFailure.source>>
              /\ ResponseOf(i).readable =>
                    ResultOf(i).err.msg[1] = "error decoding response body"
              /\ (ResponseOf(i).readable /\ ~ResponseOf(i).body.json.ok) =>
                    ResultOf(i).err.msg[2] = ResponseOf(i).body.json.err

C6_Witness ==
    /\ Finished = Tasks
    /\ task[1].op = "get_domain"
    /\ StatusIs(1, OK)
    /\ ResponseOf(1).body = ListBody
    /\ ErrKind(1) = "InvalidAPIResponse"
    /\ task[2].op = "delete_domain"
    /\ StatusIs(2, NO_CONTENT)
    /\ ~ResponseOf(2).readable
    /\ ErrKind(2) = "InvalidAPIResponse"

(***************************************************************************)
(* C7 as stated: whatever step of an operation fails (the transport call,  *)
(* the read of the body text, the decode of the body), the result carries  *)
(* that failure; no default stands in for it.                              *)
(***************************************************************************)
Carries(i, e) ==
    \/ ErrKind(i) = "Reqwest" /\ ResultOf(i).err.error = e
    \/ ErrKind(i) = "InvalidAPIResponse" /\ ResultOf(i).err.msg = ErrorToString(e)

ReadFailed == {i \in Answered : task[i].reads # <<>> /\ ~ResponseOf(i).readable}

ParseFailed ==
    {i \in Answered : /\ task[i].reads = <<"json">>
                      /\ ResponseOf(i).readable
                      /\ ~ResponseOf(i).body.json.ok}

C7_Original ==
    \A i \in Finished :
        /\ ~AnswerOf(i).ok => Carries(i, AnswerOf(i).err)
        /\ i \in ReadFailed => Carries(i, BodyFailure)
        /\ i \in ParseFailed =>
              Carries(i, [kind |-> "Decode", source |-> ResponseOf(i).body.json.err])

(***************************************************************************)
(* C7 amended: a failed transport call, and a failed read or decode of     *)
(* the body of a response with the success status, are carried by the      *)
(* result.  A failed read of the body text of a response with BAD_REQUEST  *)
(* or an unrecognized status is not: the result is the ApiError or         *)
(* UnexpectedStatusCode of that status with the empty string as its text.  *)
(***************************************************************************)
C7_Surfaced ==
    \A i \in Finished :
        /\ ~AnswerOf(i).ok => Carries(i, AnswerOf(i).err)
        /\ (i \in ReadFailed /\ i \in Succeeded) => Carries(i, BodyFailure)
        /\ (i \in ReadFailed /\ i \notin Succeeded) =>
              /\ ErrKind(i) =
                    IF task[i].op = "create_domain" /\ StatusIs(i, BAD_REQUEST)
                    THEN "ApiError" ELSE "UnexpectedStatusCode"
              /\ ResultOf(i).err.status = ResponseOf(i).status
              /\ ResultOf(i).err.text = ""
        /\ i \in ParseFailed =>
              Carries(i, [kind |-> "Decode", source |-> ResponseOf(i).body.json.err])

C7_Witness ==
    /\ Finished = Tasks
    /\ task[1].op = "create_domain"
    /\ StatusIs(1, BAD_REQUEST)
    /\ 1 \in ReadFailed
    /\ ErrKind(1) = "ApiError"
    /\ ResultOf(1).err.text = ""
    /\ task[2].op = "get_zonefile"
    /\ StatusIs(2, OK)
    /\ 2 \in ReadFailed
    /\ ErrKind(2) = "InvalidAPIResponse"


(***************************************************************************)
(* C8: in every interleaving of invocations on one client, an invocation   *)
(* hands the transport exactly one request, of its operation's method and  *)
(* built from its own argument, and then completes with one result; it     *)
(* issues no second request whatever the answer, it changes neither the    *)
(* client nor another invocation, and its result is a function of its      *)
(* operation and the answer to its own request.                            *)
(***************************************************************************)
MethodOf(op) ==
    CASE op = "create_domain" -> "POST"
      [] op = "delete_domain" -> "DELETE"
      [] OTHER -> "GET"

Affix(op) ==
    CASE op = "get_domain" -> <<DomainsPath, <<"/">>>>
      [] op = "delete_domain" -> <<DomainsPath, <<"/">>>>
      [] op = "get_zonefile" ->
            <<DomainsPath, <<"/", "z", "o", "n", "e", "f", "i", "l", "e", "/">>>>
      [] op = "get_owning_domain" ->
            <<DomainsPath \o <<"?", "o", "w", "n", "s", "_", "q", "n", "a", "m", "e", "=">>,
              <<>>>>
      [] OTHER -> <<DomainsPath, <<>>>>

C8_State ==
    /\ client = domain_client
    /\ \A i \in Tasks :
          /\ task[i].pc = "idle" => task[i].reqs = <<>> /\ ~task[i].result.some
          /\ task[i].pc # "idle" =>
                /\ Len(task[i].reqs) = 1
                /\ task[i].reqs[1].method = MethodOf(task[i].op)
                /\ task[i].reqs[1].path
                      = Affix(task[i].op)[1]
                            \o (IF task[i].op = "create_domain" THEN <<>> ELSE task[i].arg)
                            \o Affix(task[i].op)[2]
          /\ task[i].pc = "awaiting" => ~task[i].result.some
          /\ task[i].pc = "done" => task[i].result.some /\ task[i].answer.some
    /\ \A i, j \in Finished :
          (task[i].op = task[j].op /\ task[i].answer = task[j].answer) =>
              task[i].result = task[j].result

C8_Step ==
    /\ client' = client
    /\ \A i \in Tasks :
          /\ task[i].pc = "awaiting" =>
                /\ task'[i].pc \in {"awaiting", "done"}
                /\ task'[i].reqs = task[i].reqs
                /\ task'[i].op = task[i].op
          /\ task[i].pc = "done" => task'[i] = task[i] \/ task'[i] = Idle
          /\ task'[i] # task[i] => \A j \in Tasks \ {i} : task'[j] = task[j]

C8_OneRequestOneResult == []C8_State /\ [][C8_Step]_vars

C8_Witness ==
    /\ task[1].pc = "done"
    /\ task[1].op = "get_domains"
    /\ ~AnswerOf(1).ok
    /\ Len(task[1].reqs) = 1
    /\ task[2].pc = "awaiting"
    /\ task[2].op = "create_domain"
    /\ task[2].reqs[1].method = "POST"

(***************************************************************************)
(* C9: for every name given to create_domain the request is a POST to      *)
(* /domains/ whose body, read as JSON, is the object with the single       *)
(* member "name" holding that name, a name with a double quote or a        *)
(* backslash included.                                                     *)
(***************************************************************************)
C9_BodyIsNameObject ==
    \A i \in Tasks :
        task[i].op = "create_domain" =>
            /\ Len(task[i].reqs) = 1
            /\ task[i].reqs[1].method = "POST"
            /\ task[i].reqs[1].path = DomainsPath
            /\ task[i].reqs[1].body.some
            /\ ReadNameObject(task[i].reqs[1].body.val)
                  = Ok(JObj(<<Member("name", JStr(task[i].arg))>>))

(***************************************************************************)
(* C10: encoding a Domain and decoding it again gives the same value.      *)
(* The encoding has a member for a field exactly when the field is set,    *)
(* and no member is null; so it is for each DNSSECKeyInfo in keys, whose   *)
(* keyflags is written under the key "flags".                              *)
(***************************************************************************)
KeysOf(j) == {j.o[h].k : h \in 1..Len(j.o)}

NoNull(j) == \A h \in 1..Len(j.o) : j.o[h].v.t # "null"

ValueUnder(j, key) == j.o[CHOOSE h \in 1..Len(j.o) : j.o[h].k = key].v

KeyInfoOmission(k, j) ==
    /\ j.t = "obj"
    /\ NoNull(j)
    /\ KeysOf(j) \subseteq {"dnskey", "ds", "flags", "keytype", "managed"}
    /\ k.dnskey.some <=> "dnskey" \in KeysOf(j)
    /\ k.ds.some <=> "ds" \in KeysOf(j)
    /\ k.keyflags.some <=> "flags" \in KeysOf(j)
    /\ k.keytype.some <=> "keytype" \in KeysOf(j)
    /\ k.managed.some <=> "managed" \in KeysOf(j)
    /\ k.keyflags.some => ValueUnder(j, "flags") = JNum(k.keyflags.val)

C10_RoundTrip ==
    /\ encoded.some =>
          /\ encoded.val.t = "obj"
          /\ NoNull(encoded.val)
          /\ \A f \in DomainFields : value[f].some <=> f \in KeysOf(encoded.val)
          /\ KeysOf(encoded.val) \subseteq DomainFields
          /\ value.keys.some =>
                LET arr == ValueUnder(encoded.val, "keys")
                IN /\ arr.t = "arr"
                   /\ Len(arr.a) = Len(value.keys.val)
                   /\ \A k \in 1..Len(arr.a) :
                         KeyInfoOmission(value.keys.val[k], arr.a[k])
    /\ decoded.some => decoded.val.ok /\ decoded.val.val = value

C10_Witness ==
    /\ decoded.some
    /\ value = [DefaultDomain EXCEPT
                   !.name = Some("example.com"),
                   !.keys = Some(<<[NoKeyInfo EXCEPT !.keyflags = Some(0)]>>)]
    /\ KeysOf(encoded.val) = {"keys", "name"}
    /\ decoded.val.ok
    /\ decoded.val.val.name = Some("example.com")
    /\ ~decoded.val.val.created.some
    /\ decoded.val.val.keys.val[1].keyflags = Some(0)
    /\ ~decoded.val.val.keys.val[1].managed.some


====
